---- MODULE Spec2Model ----
(***************************************************************************)
(* The FIRDS download job: put_first_firds_file_in_s3 (main.py) and the    *)
(* four functions of Utils.py it calls, get_latest_file, get_data,         *)
(* write_to_csv and upload_to_s3.  One run of the job is one behaviour.    *)
(***************************************************************************)
EXTENDS Integers, Sequences, FiniteSets, TLC

\* ------------------------------------------------------------------ bounds
\* most <doc> elements of a feed document
MaxDocs == 3
\* most entries of an archive
MaxFiles == 2
\* most text items (record fragments and other text) of an archive
MaxRecs == 2
\* most mappings of a list handed to write_to_csv on its own
MaxRows == 2

\* ------------------------------------------------------------- Python values
\* Python's None
None == "None"
\* a local that was not assigned yet
Unset == "unset"
\* no exception
NoExc == "none"

\* --------------------------------------------------------- the registry feed
\* file names, as token sequences the pattern of get_latest_file reads
FileNames ==
    { <<"DLTINS", "_", "2", "_", "x", ".zip">>,
      <<"DLTINS", "_", "1", "_", "x", ".zip">>,
      <<"DLTINS", "_", "0", "1", "_", "x", ".zip">>,
      <<"DLTINS", "_", "1", "0", "_", "x", ".zip">>,
      <<"DLTINS", "_", "x", "_", "x", ".zip">>,
      <<"DLTINS", "_", "1", ".zip">>,
      <<"FULINS", "_", "1", "_", "x", ".zip">> }

\* the text of a download_link element; an empty element has text None
Links == {"l1", "l2", None}

\* file_info of one <doc>: the name attribute of each <str> to its text
FeedEntries == [file_name : FileNames, download_link : Links]

\* tree.findall(".//doc") of the documents the registry may answer with
FeedDocuments == UNION { [1..n -> FeedEntries] : n \in 0..MaxDocs }

Digits == {"0", "1", "2"}

DigitValue(d) == CASE d = "0" -> 0 [] d = "1" -> 1 [] d = "2" -> 2

\* the places where the second "_" of the pattern can match: an underscore
\* after the prefix with a ".zip" somewhere behind it
DateEnds(name) ==
    { i \in 3..Len(name) : /\ name[i] = "_"
                           /\ \E j \in (i+1)..Len(name) : name[j] = ".zip" }

\* re.match(r"DLTINS_(.*?)_.*?\.zip", name): <<>> for None, or <<group(1)>>;
\* the lazy group ends at the first place the rest of the pattern matches
ReMatch(name) ==
    IF /\ Len(name) >= 2
       /\ name[1] = "DLTINS"
       /\ name[2] = "_"
       /\ DateEnds(name) # {}
    THEN LET e == CHOOSE i \in DateEnds(name) : \A k \in DateEnds(name) : i <= k
         IN  <<SubSeq(name, 3, e - 1)>>
    ELSE <<>>

\* the value of a digit string, most significant digit first
RECURSIVE DecimalValue(_)
DecimalValue(s) ==
    IF s = <<>> THEN 0
    ELSE 10 * DecimalValue(SubSeq(s, 1, Len(s) - 1)) + DigitValue(s[Len(s)])

\* int(token): <<value>>, or <<>> where int raises ValueError
ParseInt(token) ==
    IF token # <<>> /\ \A i \in 1..Len(token) : token[i] \in Digits
    THEN <<DecimalValue(token)>>
    ELSE <<>>

\* the comparison written with <=: the last of equal dates would win
DateLessOrEqual(date_int, min_date) == min_date = <<>> \/ date_int <= min_date[1]

\* date_int < min_date, min_date being <<>> for float('inf')
DateLess(date_int, min_date) == min_date = <<>> \/ date_int < min_date[1]

\* the loop over docs of get_latest_file from doc i on
RECURSIVE SelectFrom(_, _, _, _)
SelectFrom(docs, i, min_date, tgt) ==
    IF i > Len(docs) THEN [exc |-> NoExc, target |-> tgt]
    ELSE LET match == ReMatch(docs[i].file_name)
         IN  IF match = <<>>
             THEN [exc |-> "AttributeError", target |-> Unset]
             ELSE LET date == ParseInt(match[1])
                  IN  IF date = <<>>
                      THEN [exc |-> "ValueError", target |-> Unset]
                      ELSE IF DateLess(date[1], min_date)
                           THEN SelectFrom(docs, i + 1, date, docs[i].download_link)
                           ELSE SelectFrom(docs, i + 1, min_date, tgt)

\* a selection that passes over the entries it cannot read
GetLatestFileSkipping(docs) ==
    SelectFrom(SelectSeq(docs, LAMBDA d :
                 /\ ReMatch(d.file_name) # <<>>
                 /\ ParseInt(ReMatch(d.file_name)[1]) # <<>>),
               1, <<>>, None)

\* get_latest_file once the registry answered
GetLatestFile(docs) == SelectFrom(docs, 1, <<>>, None)

\* ------------------------------------------------------------- the archive
\* TARGET_ELEMENTS.keys(), in the order of the dict
TargetColumns == <<"Id", "FullNm">>

\* TARGET_ELEMENTS: output column to the path of its element in a record
TARGET_ELEMENTS == [c \in {"Id", "FullNm"} |->
                      IF c = "Id" THEN "GnlAttrbts/Id" ELSE "GnlAttrbts/FullNm"]

Paths == { TARGET_ELEMENTS[c] : c \in DOMAIN TARGET_ELEMENTS }

\* tree.find(path) finds no element
Absent == "absent"

\* a piece of an entry's text: a <FinInstrm>...</FinInstrm> stretch of one line
\* (wf: it is well-formed XML; elems: the text of the element at each path,
\* None for an empty element), or text the pattern of get_data does not match
Fragment(wf, id, nm) ==
    [tag |-> "FinInstrm", wf |-> wf,
     elems |-> [p \in Paths |-> IF p = TARGET_ELEMENTS["Id"] THEN id ELSE nm]]

OtherText == [tag |-> "other", wf |-> TRUE, elems |-> [p \in Paths |-> Absent]]

TextItems ==
    { OtherText,
      Fragment(FALSE, "v", "v"),
      Fragment(TRUE, "v", "v"),
      Fragment(TRUE, "v", None),
      Fragment(TRUE, "v", Absent) }

EntryNames == {"a.xml", "b.xml"}

\* the texts of at most n items
TextsUpTo(n) == UNION { [1..k -> TextItems] : k \in 0..n }

\* zf.filelist with what zf.read gives for each entry: at most f entries
\* holding at most n items between them
RECURSIVE ArchivesUpTo(_, _)
ArchivesUpTo(f, n) ==
    IF f = 0 THEN { <<>> }
    ELSE { <<>> } \cup
         UNION { { <<[filename |-> nm, text |-> t]>> \o rest :
                     nm \in EntryNames, rest \in ArchivesUpTo(f - 1, n - Len(t)) } :
                 t \in TextsUpTo(n) }

Archives == ArchivesUpTo(MaxFiles, MaxRecs)

\* re.findall(r"<FinInstrm>.*?</FinInstrm>", xml)
FindAll(text) == SelectSeq(text, LAMBDA it : it.tag = "FinInstrm")

\* ElementTree.parse of one record and the dict comprehension over
\* TARGET_ELEMENTS: the mapping, or the exception raised
ProjectRecord(rec) ==
    IF ~rec.wf
    THEN [exc |-> "ParseError", row |-> [c \in {} |-> None]]
    ELSE IF \E c \in DOMAIN TARGET_ELEMENTS : rec.elems[TARGET_ELEMENTS[c]] = Absent
         THEN [exc |-> "AttributeError", row |-> [c \in {} |-> None]]
         ELSE [exc |-> NoExc,
               row |-> [c \in DOMAIN TARGET_ELEMENTS |-> rec.elems[TARGET_ELEMENTS[c]]]]

\* while records: ... records.pop() ...
RECURSIVE ProjectAll(_, _)
ProjectAll(records, out) ==
    IF records = <<>> THEN [exc |-> NoExc, output |-> out]
    ELSE LET r == ProjectRecord(records[Len(records)])
         IN  IF r.exc # NoExc
             THEN [exc |-> r.exc, output |-> out]
             ELSE ProjectAll(SubSeq(records, 1, Len(records) - 1), Append(out, r.row))

\* for file in zf.filelist, from entry i on
RECURSIVE ReadFiles(_, _, _)
ReadFiles(filelist, i, out) ==
    IF i > Len(filelist) THEN [exc |-> NoExc, output |-> out]
    ELSE LET r == ProjectAll(FindAll(filelist[i].text), out)
         IN  IF r.exc # NoExc THEN r ELSE ReadFiles(filelist, i + 1, r.output)

\* get_data after the archive was validated: the loop and the return, where
\* file is bound only if the loop ran
GetDataLoop(filelist) ==
    LET r == ReadFiles(filelist, 1, <<>>)
    IN  IF r.exc # NoExc
        THEN [exc |-> r.exc, output |-> <<>>, file_name |-> Unset]
        ELSE IF filelist = <<>>
             THEN [exc |-> "UnboundLocalError", output |-> <<>>, file_name |-> Unset]
             ELSE [exc |-> NoExc, output |-> r.output,
                   file_name |-> filelist[Len(filelist)].filename]

\* ------------------------------------------------------------------ the CSV
\* a cell written with str(): None comes out as the text None
CsvCellStr(v) == v

\* the csv writer's cell for a value: None is written as the empty string
CsvCell(v) == IF v = None THEN "" ELSE v

\* DictWriter._dict_to_list: a key outside fieldnames raises ValueError, a
\* missing key is written as restval
DictToList(row) ==
    IF DOMAIN row \ { TargetColumns[i] : i \in 1..Len(TargetColumns) } # {}
    THEN [exc |-> "ValueError", cells |-> <<>>]
    ELSE [exc |-> NoExc,
          cells |-> [i \in 1..Len(TargetColumns) |->
                       IF TargetColumns[i] \in DOMAIN row
                       THEN CsvCell(row[TargetColumns[i]])
                       ELSE ""]]

\* while output: row = output.pop(); writer.writerow(row), a failing row logged
RECURSIVE WriteRows(_, _)
WriteRows(rows, lines) ==
    IF rows = <<>> THEN lines
    ELSE LET r == DictToList(rows[Len(rows)])
             rest == SubSeq(rows, 1, Len(rows) - 1)
         IN  IF r.exc # NoExc
             THEN WriteRows(rest, lines)
             ELSE WriteRows(rest, Append(lines, r.cells))

\* outf.seek(0)
SeekStart == 0

\* write_to_csv: the stream returned
WriteToCsvStream(rows) ==
    [open |-> TRUE, lines |-> WriteRows(rows, <<TargetColumns>>), pos |-> SeekStart]

\* outf.read()
ReadStream(f) == SubSeq(f.lines, f.pos + 1, Len(f.lines))

\* the mappings get_data can return, a mapping with a key that is no column,
\* and one that lacks a column
CsvRows ==
    [DOMAIN TARGET_ELEMENTS -> {"v", None}]
      \cup { [c \in {"Id", "FullNm", "Extra"} |-> "v"], [c \in {"Id"} |-> "v"] }

CsvInputs == UNION { [1..n -> CsvRows] : n \in 0..MaxRows }

\* -------------------------------------------------------------------- state
VARIABLES
    pc,         \* where the run stands
    reg_retry,  \* the retry argument of the running get_latest_file
    arc_retry,  \* the retry argument of the running get_data
    regTries,   \* the requests.get(URL) calls made, each with how it ended
    arcTries,   \* the requests.get(target) calls made, each with how it ended
    feed,       \* docs of get_latest_file
    target,     \* target of put_first_firds_file_in_s3
    zf,         \* zf.filelist of get_data, with the entries' texts
    output,     \* the list get_data returns and write_to_csv consumes
    got,        \* how many mappings get_data returned, -1 before it returns
    file_name,  \* file_name of put_first_firds_file_in_s3
    outf,       \* the stream of write_to_csv
    puts,       \* the s3.put_object calls made
    failure     \* what ended the run early: the exception, or why exit() ran

vars == <<pc, reg_retry, arc_retry, regTries, arcTries, feed, target, zf,
          output, got, file_name, outf, puts, failure>>

NoStream == [open |-> FALSE, lines |-> <<>>, pos |-> 0]

Init ==
    /\ pc = "get_latest_file"
    /\ reg_retry = FALSE
    /\ arc_retry = FALSE
    /\ regTries = <<>>
    /\ arcTries = <<>>
    /\ feed = <<>>
    /\ target = Unset
    /\ zf = <<>>
    /\ output = <<>>
    /\ got = -1
    /\ file_name = Unset
    /\ outf = NoStream
    /\ puts = <<>>
    /\ failure = NoExc

\* ------------------------------------------------------------ get_latest_file
\* a handler that gives up only on the third failure
RegistryFailedRetriesTwice ==
    IF Len(regTries) >= 2
    THEN /\ pc' = "exit"
         /\ failure' = "registry_transport"
         /\ UNCHANGED reg_retry
    ELSE /\ reg_retry' = TRUE
         /\ UNCHANGED <<pc, failure>>

\* what the except clause of get_latest_file does once requests.get raised:
\* exit() on the second attempt, else sleep and call get_latest_file(retry=True)
RegistryFailed ==
    IF reg_retry
    THEN /\ pc' = "exit"
         /\ failure' = "registry_transport"
         /\ UNCHANGED reg_retry
    ELSE /\ reg_retry' = TRUE
         /\ UNCHANGED <<pc, failure>>

\* requests.get(URL) raises a RequestException
RegistryFetchFails ==
    /\ pc = "get_latest_file"
    /\ regTries' = Append(regTries, "fail")
    /\ RegistryFailed
    /\ UNCHANGED <<arc_retry, arcTries, feed, target, zf, output, got,
                   file_name, outf, puts>>

\* requests.get(URL) answers, and the answer is parsed into docs
RegistryFetchOk ==
    /\ pc = "get_latest_file"
    /\ \E d \in FeedDocuments : feed' = d
    /\ regTries' = Append(regTries, "ok")
    /\ pc' = "parse_feed"
    /\ UNCHANGED <<reg_retry, arc_retry, arcTries, target, zf, output, got,
                   file_name, outf, puts, failure>>

\* the loop of get_latest_file and its return
SelectLatest ==
    /\ pc = "parse_feed"
    /\ LET r == GetLatestFile(feed)
       IN  IF r.exc # NoExc
           THEN /\ pc' = "error"
                /\ failure' = r.exc
                /\ UNCHANGED target
           ELSE /\ pc' = "selected"
                /\ target' = r.target
                /\ UNCHANGED failure
    /\ UNCHANGED <<reg_retry, arc_retry, regTries, arcTries, feed, zf, output,
                   got, file_name, outf, puts>>

\* the check of the target left out
NoTargetUnchecked(t) == FALSE

\* if not target: ... return
NoTarget(t) == t = None

\* put_first_firds_file_in_s3 with the target in hand
AfterSelect ==
    /\ pc = "selected"
    /\ pc' = IF NoTarget(target) THEN "done" ELSE "get_data"
    /\ feed' = <<>>
    /\ UNCHANGED <<reg_retry, arc_retry, regTries, arcTries, target, zf, output,
                   got, file_name, outf, puts, failure>>

\* ------------------------------------------------------------------ get_data
\* a handler that gives up only on the third failure
ArchiveFailedRetriesTwice ==
    IF Len(arcTries) >= 2
    THEN /\ pc' = "exit"
         /\ failure' = "archive_transport"
         /\ UNCHANGED arc_retry
    ELSE /\ arc_retry' = TRUE
         /\ UNCHANGED <<pc, failure>>

\* what the except requests.RequestException clause of get_data does:
\* exit() on the second attempt, else sleep and call get_data(target, retry=True)
ArchiveFailed ==
    IF arc_retry
    THEN /\ pc' = "exit"
         /\ failure' = "archive_transport"
         /\ UNCHANGED arc_retry
    ELSE /\ arc_retry' = TRUE
         /\ UNCHANGED <<pc, failure>>

\* requests.get(target) raises a RequestException
ArchiveFetchFails ==
    /\ pc = "get_data"
    /\ arcTries' = Append(arcTries, "fail")
    /\ ArchiveFailed
    /\ UNCHANGED <<reg_retry, regTries, feed, target, zf, output, got,
                   file_name, outf, puts>>

\* an invalid archive handled as the transport failure is: retried once
ArchiveInvalidRetried(why) ==
    IF arc_retry
    THEN /\ pc' = "exit"
         /\ failure' = why
         /\ UNCHANGED arc_retry
    ELSE /\ arc_retry' = TRUE
         /\ UNCHANGED <<pc, failure>>

\* what the except Exception clause of get_data does: log and exit()
ArchiveInvalid(why) ==
    /\ pc' = "exit"
    /\ failure' = why
    /\ UNCHANGED arc_retry

\* requests.get(target) answers with bytes ZipFile rejects (BadZipFile)
ArchiveNotZip ==
    /\ pc = "get_data"
    /\ arcTries' = Append(arcTries, "corrupt")
    /\ ArchiveInvalid("BadZipFile")
    /\ UNCHANGED <<reg_retry, regTries, feed, target, zf, output, got,
                   file_name, outf, puts>>

\* requests.get(target) answers with an archive in which zf.testzip() finds a
\* bad entry
ArchiveBadEntry ==
    /\ pc = "get_data"
    /\ arcTries' = Append(arcTries, "corrupt")
    /\ ArchiveInvalid("Invalid file in FIRDS zip")
    /\ UNCHANGED <<reg_retry, regTries, feed, target, zf, output, got,
                   file_name, outf, puts>>

\* requests.get(target) answers with an archive zf.testzip() passes
ArchiveFetchOk ==
    /\ pc = "get_data"
    /\ \E a \in Archives : zf' = a
    /\ arcTries' = Append(arcTries, "ok")
    /\ pc' = "extract"
    /\ UNCHANGED <<reg_retry, arc_retry, regTries, feed, target, output, got,
                   file_name, outf, puts, failure>>

\* the loop of get_data over zf.filelist and its return
Extract ==
    /\ pc = "extract"
    /\ LET r == GetDataLoop(zf)
       IN  IF r.exc # NoExc
           THEN /\ pc' = "error"
                /\ failure' = r.exc
                /\ UNCHANGED <<output, got, file_name>>
           ELSE /\ pc' = "extracted"
                /\ output' = r.output
                /\ got' = Len(r.output)
                /\ file_name' = r.file_name
                /\ UNCHANGED failure
    /\ UNCHANGED <<reg_retry, arc_retry, regTries, arcTries, feed, target, zf,
                   outf, puts>>

\* if not output: ... return
NoOutput(o) == o = <<>>

\* put_first_firds_file_in_s3 with the output in hand
AfterData ==
    /\ pc = "extracted"
    /\ pc' = IF NoOutput(output) THEN "done" ELSE "write_to_csv"
    /\ zf' = <<>>
    /\ UNCHANGED <<reg_retry, arc_retry, regTries, arcTries, feed, target,
                   output, got, file_name, outf, puts, failure>>

\* ------------------------------------------------- write_to_csv, upload_to_s3
\* write_to_csv(output): the rows are popped off output as they are written
WriteToCsv ==
    /\ pc = "write_to_csv"
    /\ outf' = WriteToCsvStream(output)
    /\ output' = <<>>
    /\ pc' = "upload_to_s3"
    /\ UNCHANGED <<reg_retry, arc_retry, regTries, arcTries, feed, target, zf,
                   got, file_name, puts, failure>>

\* upload_to_s3(outf, bucket, file_name): one put_object, whose failure is
\* logged and nothing more
UploadToS3 ==
    /\ pc = "upload_to_s3"
    /\ \E ok \in BOOLEAN :
         puts' = Append(puts, [Key |-> file_name, Body |-> ReadStream(outf),
                               ok |-> ok])
    /\ pc' = "done"
    /\ UNCHANGED <<reg_retry, arc_retry, regTries, arcTries, feed, target, zf,
                   output, got, file_name, outf, failure>>

Next ==
    \/ RegistryFetchFails
    \/ RegistryFetchOk
    \/ SelectLatest
    \/ AfterSelect
    \/ ArchiveFetchFails
    \/ ArchiveNotZip
    \/ ArchiveBadEntry
    \/ ArchiveFetchOk
    \/ Extract
    \/ AfterData
    \/ WriteToCsv
    \/ UploadToS3

\* one run of put_first_firds_file_in_s3
Spec == Init /\ [][Next]_vars

\* write_to_csv and upload_to_s3 on any list of mappings
InitCsv ==
    /\ pc = "write_to_csv"
    /\ reg_retry = FALSE
    /\ arc_retry = FALSE
    /\ regTries = <<"ok">>
    /\ arcTries = <<"ok">>
    /\ feed = <<>>
    /\ target = "l1"
    /\ zf = <<>>
    /\ output \in CsvInputs
    /\ got = Len(output)
    /\ file_name = "a.xml"
    /\ outf = NoStream
    /\ puts = <<>>
    /\ failure = NoExc

NextCsv == WriteToCsv \/ UploadToS3

SpecCsv == InitCsv /\ [][NextCsv]_vars

\* ================================================================= properties
\* the file name grammar PREFIX_<date>_<suffix>.zip: DLTINS, an underscore, a
\* date of one or more digits, an underscore, a suffix, .zip at the end
GrammarDateEnd(name) ==
    { i \in 4..(Len(name) - 1) :
        /\ name[1] = "DLTINS" /\ name[2] = "_" /\ name[i] = "_"
        /\ \A k \in 3..(i - 1) : name[k] \in Digits
        /\ name[Len(name)] = ".zip" }

MatchesGrammar(name) == GrammarDateEnd(name) # {}

\* the date of a name that matches the grammar, as a number
GrammarDate(name) ==
    LET e == CHOOSE i \in GrammarDateEnd(name) : TRUE
    IN  DecimalValue(SubSeq(name, 3, e - 1))

\* get_latest_file ran its loop over feed: it returned or it raised
SelectionEnded == pc \in {"selected", "error"} /\ arcTries = <<>>

\* get_data ran its loop over zf: it returned or it raised
ExtractionEnded == pc \in {"extracted", "error"} /\ arcTries # <<>>

PatternAccepts(name) ==
    /\ Len(name) >= 2 /\ name[1] = "DLTINS" /\ name[2] = "_"
    /\ \E i \in 4..Len(name) :
         /\ name[i] = "_"
         /\ \A k \in 3..(i - 1) : name[k] \in Digits
         /\ \E j \in (i + 1)..Len(name) : name[j] = ".zip"

\* C7, as stated: with an entry whose file name does not match the grammar
\* and another whose name does, get_latest_file still returns, and returns
\* the link of an entry whose name matches
C7_MismatchIsPerEntry ==
    ( /\ SelectionEnded
      /\ \E i \in 1..Len(feed) : ~MatchesGrammar(feed[i].file_name)
      /\ \E i \in 1..Len(feed) : MatchesGrammar(feed[i].file_name) )
    => /\ pc = "selected"
       /\ \E i \in 1..Len(feed) : /\ MatchesGrammar(feed[i].file_name)
                                  /\ target = feed[i].download_link

\* C7, amended: one entry whose file name the pattern does not match, or whose
\* date token int rejects, ends get_latest_file with that exception and no
\* reference, whatever the other entries are; it returns only when it accepts
\* every entry
C7_MismatchIsFatal ==
    SelectionEnded =>
      IF \E i \in 1..Len(feed) : ~PatternAccepts(feed[i].file_name)
      THEN /\ pc = "error"
           /\ failure \in {"AttributeError", "ValueError"}
           /\ target = Unset
      ELSE pc = "selected" /\ failure = NoExc

\* the selection raised over a document whose first two entries match and
\* whose last does not
C7_Witness ==
    /\ pc = "error"
    /\ arcTries = <<>>
    /\ Len(feed) = 3
    /\ MatchesGrammar(feed[1].file_name)
    /\ MatchesGrammar(feed[2].file_name)
    /\ ~PatternAccepts(feed[3].file_name)
    /\ target = Unset

\* the fragments of an archive, as <<entry, place in its text>>
FragmentsOf(filelist) ==
    UNION { { <<f, k>> : k \in { j \in 1..Len(filelist[f].text) :
                                   filelist[f].text[j].tag = "FinInstrm" } } :
            f \in 1..Len(filelist) }

FragmentAt(filelist, fk) == filelist[fk[1]].text[fk[2]]

\* a well-formed fragment with an element at every configured path
Complete(frag) == frag.wf /\ \A p \in Paths : frag.elems[p] # Absent

\* C2, as stated: an archive entry with K well-formed fragments and one
\* malformed one yields exactly K mappings (here: a one-entry archive, and
\* well-formed fragments that hold every configured element)
C2_MalformedSkipped ==
    ( /\ ExtractionEnded
      /\ Len(zf) = 1
      /\ Cardinality({ fk \in FragmentsOf(zf) : ~FragmentAt(zf, fk).wf }) = 1
      /\ \A fk \in FragmentsOf(zf) :
           FragmentAt(zf, fk).wf => Complete(FragmentAt(zf, fk)) )
    => /\ pc = "extracted"
       /\ Len(output) = Cardinality(FragmentsOf(zf)) - 1

\* C3, as stated: every mapping has exactly the configured columns as keys,
\* and a well-formed fragment without the element of a column still gives a
\* mapping, with None for that column (here: an archive of one or more entries
\* whose fragments are all well-formed)
C3_MissingPathIsNone ==
    ( /\ ExtractionEnded
      /\ zf # <<>>
      /\ \A fk \in FragmentsOf(zf) : FragmentAt(zf, fk).wf )
    => /\ pc = "extracted"
       /\ Len(output) = Cardinality(FragmentsOf(zf))
       /\ \A k \in 1..Len(output) : DOMAIN output[k] = DOMAIN TARGET_ELEMENTS
       /\ \A c \in DOMAIN TARGET_ELEMENTS :
            Cardinality({ k \in 1..Len(output) : output[k][c] = None })
              = Cardinality({ fk \in FragmentsOf(zf) :
                   FragmentAt(zf, fk).elems[TARGET_ELEMENTS[c]] \in {Absent, None} })

\* C8, as stated: an archive without any record fragment, its entry list
\* empty or not, makes get_data return the empty list and a file name
C8_NoFragmentsNoError ==
    ( ExtractionEnded /\ FragmentsOf(zf) = {} )
    => /\ pc = "extracted"
       /\ output = <<>>
       /\ file_name \in EntryNames

\* a fetch log of two or more calls that starts with two failures
FailedTwice(tries) == Len(tries) >= 2 /\ tries[1] = "fail" /\ tries[2] = "fail"

\* a fetch log of a failure and then an answer
FailedThenAnswered(tries) ==
    Len(tries) = 2 /\ tries[1] = "fail" /\ tries[2] # "fail"

\* C4: a fetch, of the registry or of the archive, is made at most twice and
\* a second time only after the first failed; when it failed once and then
\* answered, the run is not ended for transport and goes on with the answer
C4_RetriedExactlyOnce ==
    /\ Len(regTries) <= 2
    /\ Len(arcTries) <= 2
    /\ Len(regTries) = 2 => regTries[1] = "fail"
    /\ Len(arcTries) = 2 => arcTries[1] = "fail"
    /\ FailedThenAnswered(regTries) =>
         pc # "get_latest_file" /\ failure # "registry_transport"
    /\ FailedThenAnswered(arcTries) =>
         pc # "get_data" /\ failure # "archive_transport"
    /\ ( FailedThenAnswered(arcTries) /\ arcTries[2] = "ok" ) => pc # "exit"

\* a run that fetched the registry and the archive twice each and uploaded
C4_Witness ==
    /\ pc = "done"
    /\ regTries = <<"fail", "ok">>
    /\ arcTries = <<"fail", "ok">>
    /\ Len(puts) = 1

\* C5: once a fetch failed on its first attempt and on its retry the run is
\* ended by exit(), and write_to_csv and upload_to_s3 were not and are not
\* reached
C5_TwoFailuresEndTheRun ==
    ( FailedTwice(regTries) \/ FailedTwice(arcTries) )
    => /\ pc = "exit"
       /\ failure \in {"registry_transport", "archive_transport"}
       /\ outf = NoStream
       /\ puts = <<>>

\* the archive fetch failed twice after the registry had answered
C5_Witness ==
    /\ pc = "exit"
    /\ arcTries = <<"fail", "fail">>
    /\ target \in {"l1", "l2"}
    /\ failure = "archive_transport"

\* C6: an archive fetch that answers with an invalid archive is the last
\* fetch of the run, on the first attempt and on the retry: the run is ended
\* by exit() and no mapping was extracted
C6_InvalidArchiveNotRetried ==
    \A i \in 1..Len(arcTries) :
      arcTries[i] = "corrupt" =>
        /\ i = Len(arcTries)
        /\ pc = "exit"
        /\ failure \in {"BadZipFile", "Invalid file in FIRDS zip"}
        /\ zf = <<>>
        /\ output = <<>>
        /\ got = -1

\* the retry of the archive fetch answered with an archive testzip rejects
C6_Witness ==
    /\ pc = "exit"
    /\ arcTries = <<"fail", "corrupt">>
    /\ failure = "Invalid file in FIRDS zip"

\* C10: put_object is called at most once, and only with a target, one or
\* more mappings returned by get_data and the stream written; with the target
\* None the run ends without a fetch of the archive, a stream or a put, and
\* with no mapping returned it ends without a stream or a put, neither by
\* exit() nor by an exception
C10_UploadOnlyAfterAllStages ==
    /\ Len(puts) <= 1
    /\ puts # <<>> =>
         /\ target \notin {Unset, None}
         /\ got >= 1
         /\ outf.open
         /\ puts[1].Key = file_name
    /\ outf.open => target \notin {Unset, None} /\ got >= 1
    /\ target = None =>
         /\ pc \in {"selected", "done"}
         /\ arcTries = <<>>
         /\ outf = NoStream
         /\ puts = <<>>
         /\ failure = NoExc
    /\ got = 0 =>
         /\ pc \in {"extracted", "done"}
         /\ outf = NoStream
         /\ puts = <<>>
         /\ failure = NoExc

\* a run that uploaded the stream of two mappings
C10_Witness ==
    /\ pc = "done"
    /\ Len(puts) = 1
    /\ got = 2
    /\ Len(puts[1].Body) = 3

\* the row of a mapping: its values by column, the empty string for None and
\* for a column it lacks
RowOf(m) ==
    [i \in 1..Len(TargetColumns) |->
       IF TargetColumns[i] \in DOMAIN m /\ m[TargetColumns[i]] # None
       THEN m[TargetColumns[i]]
       ELSE ""]

\* a mapping the writer takes: it has no key that is not a column
Serializes(m) == \A k \in DOMAIN m : \E i \in 1..Len(TargetColumns) : TargetColumns[i] = k

\* C9: write_to_csv returns a stream positioned at its start that holds the
\* header once, first, and then one row for each mapping that serializes, a
\* None as an empty column; a mapping that does not serialize is left out and
\* the others are written
C9_HeaderThenOneRowPerMapping ==
    [][ pc = "write_to_csv" =>
          /\ outf'.open
          /\ outf'.pos = 0
          /\ outf'.lines[1] = TargetColumns
          /\ \A k \in 2..Len(outf'.lines) : outf'.lines[k] # TargetColumns
          /\ Len(outf'.lines)
               = 1 + Cardinality({ k \in 1..Len(output) : Serializes(output[k]) })
          /\ \A k \in 1..Len(output) :
               Serializes(output[k]) =>
                 Cardinality({ j \in 2..Len(outf'.lines) :
                                 outf'.lines[j] = RowOf(output[k]) })
                   = Cardinality({ j \in 1..Len(output) :
                                     /\ Serializes(output[j])
                                     /\ RowOf(output[j]) = RowOf(output[k]) })
      ]_vars

\* of two mappings one did not serialize: the stream holds the header and the
\* row of the other, whose second column is empty
C9_Witness ==
    /\ pc = "upload_to_s3"
    /\ got = 2
    /\ outf.pos = 0
    /\ outf.lines = <<TargetColumns, <<"v", "">> >>

====
